---- MODULE Spec2Model ----
(***************************************************************************)
(* A model of the pick-order task generator (src/main.py).                 *)
(*                                                                         *)
(* Strings that the program compares or indexes (bin tags) are sequences   *)
(* of one-character strings, ordered by code point as Python orders them.  *)
(* The process-wide numpy generator is the variable rng; every draw of the *)
(* program is computed from it and advances it.  The raw generator itself  *)
(* (numpy's Mersenne Twister) is library code: it is replaced by a small   *)
(* full-period congruential generator, and the numpy routines the program  *)
(* calls (choice, shuffle) are computed from the raw draws the way numpy   *)
(* computes them.                                                          *)
(***************************************************************************)
EXTENDS Integers, Sequences, FiniteSets, TLC

VARIABLES
    pc,                   \* call stack: the position of every active call, innermost first
    seed,                 \* the argument of numpy.random.seed
    rng,                  \* state of the process-wide generator
    hashOrder,            \* order in which this interpreter iterates a dict with keys 'A', 'B'
    policy,               \* racks_and_num_source_bins of the sampler call under study
    result,               \* what that call returned or raised
    num_training_tasks,   \* arguments of get_tasks_for_method
    num_testing_tasks,
    task_id,              \* locals of get_tasks_for_method / lists of __main__
    training_tasks,
    testing_tasks,
    method_index,         \* position of the loop over STUDY_METHODS (1-based)
    output,               \* files written: <<study_method, kind>> -> tasks
    orders,               \* local list of get_orders_for_task
    run,                  \* which run of the program this is
    previous_output       \* the files the previous run left behind

vars == <<pc, seed, rng, hashOrder, policy, result, num_training_tasks,
          num_testing_tasks, task_id, training_tasks, testing_tasks,
          orders, method_index, output, run, previous_output>>

(***************************************************************************)
(* Bounds of the model.                                                    *)
(***************************************************************************)
MaxSeed == 31       \* seeds 0..MaxSeed
MaxEntropy == 1     \* unseeded generator states 0..MaxEntropy
MaxRequest == 13    \* per-rack counts 0..MaxRequest in the sampler call under study
MaxTasks == 3       \* counts 0..MaxTasks in the get_tasks_for_method call under study
MaxRuns == 2        \* runs of the program in a row

(***************************************************************************)
(* Module-level constants of the program.                                  *)
(***************************************************************************)
MAX_ORDERS_PER_RACK == 6
NUM_TRAINING_TASKS == 5
NUM_TESTING_TASKS == 10
STUDY_METHODS ==
    << "pick-by-light_button", "pick-by-hud_rfid",
       "pick-by-paper_none", "pick-by-paper_barcode" >>

(***************************************************************************)
(* Python built-ins.                                                       *)
(***************************************************************************)
\* range(lo, hi) as a sequence
range(lo, hi) == [i \in 1..(IF hi > lo THEN hi - lo ELSE 0) |-> lo + i - 1]

\* ord(c) for the characters that occur in tags
Ord(c) ==
    CASE c = "0" -> 48 [] c = "1" -> 49 [] c = "2" -> 50 [] c = "3" -> 51
      [] c = "4" -> 52 [] c = "5" -> 53 [] c = "6" -> 54 [] c = "7" -> 55
      [] c = "8" -> 56 [] c = "9" -> 57
      [] c = "A" -> 65 [] c = "B" -> 66 [] c = "C" -> 67

Digits == << "0", "1", "2", "3", "4", "5", "6", "7", "8", "9" >>

\* "%s" % n for a non-negative integer n: its decimal digits
RECURSIVE Str(_)
Str(n) == IF n < 10 THEN << Digits[n + 1] >>
          ELSE Str(n \div 10) \o << Digits[(n % 10) + 1] >>

\* s < t for Python strings: lexicographic by code point, a proper prefix first
RECURSIVE StrLessFrom(_, _, _)
StrLessFrom(s, t, k) ==
    IF k > Len(t) THEN FALSE
    ELSE IF k > Len(s) THEN TRUE
    ELSE IF Ord(s[k]) < Ord(t[k]) THEN TRUE
    ELSE IF Ord(s[k]) > Ord(t[k]) THEN FALSE
    ELSE StrLessFrom(s, t, k + 1)

StrLess(s, t) == StrLessFrom(s, t, 1)

\* Body applied to the value of e: an assignment to a local, which is evaluated
\* once, before the statements that read it
With(e, Body(_)) == CHOOSE y \in {Body(x) : x \in {e}} : TRUE

(***************************************************************************)
(* Bin and the bin layout.                                                 *)
(***************************************************************************)
Bin(rack, row_number, column_number) ==
    [rack |-> rack, row_number |-> row_number, column_number |-> column_number]

tag(bin) == << bin.rack >> \o Str(bin.row_number) \o Str(bin.column_number)

generate_bins ==
    LET racks == << "A", "B" >>
        rows == range(1, 5)
        cols == range(1, 4)
        per_rack == Len(rows) * Len(cols)
    IN  [k \in 1..(Len(racks) * per_rack) |->
            Bin(racks[((k - 1) \div per_rack) + 1],
                rows[(((k - 1) \div Len(cols)) % Len(rows)) + 1],
                cols[((k - 1) % Len(cols)) + 1])]

BINS == generate_bins

Racks == {BINS[k].rack : k \in DOMAIN BINS}

(***************************************************************************)
(* numpy.random.  A draw returns [value, state]: the value drawn and the   *)
(* generator's state after it.                                             *)
(***************************************************************************)
\* one step of the raw generator; its state is also its raw output (0..65535)
Advance(r) == (75 * r + 74) % 65537

\* mutant: the generator is left as the process started it
numpy_random_seed_skipped(s, r) == r

\* numpy.random.seed(s): the generator's state becomes a function of s alone
\* (the seed is scrambled, as init_genrand does)
numpy_random_seed(s, r) == Advance(Advance(Advance(s % 65536)))

\* the smallest 2^k - 1 that is >= max
RECURSIVE MaskFrom(_, _)
MaskFrom(max, m) == IF m >= max THEN m ELSE MaskFrom(max, 2 * m + 1)

\* rk_interval(max): uniform in 0..max by masked rejection
RECURSIVE rk_interval_from(_, _, _)
rk_interval_from(max, mask, r) ==
    With(Advance(r), LAMBDA s :
        IF s % (mask + 1) <= max THEN [value |-> s % (mask + 1), state |-> s]
        ELSE rk_interval_from(max, mask, s))

rk_interval(max, r) ==
    IF max = 0 THEN [value |-> 0, state |-> r]
    ELSE With(MaskFrom(max, 1), LAMBDA mask : rk_interval_from(max, mask, r))

\* random_sample(): uniform in [0, 1), in hundredths
random_sample(r) ==
    With(Advance(r), LAMBDA s : [value |-> (s * 100) \div 65536, state |-> s])

\* numpy.random.shuffle(x): for i in reversed(range(1, n)): swap x[i], x[rk_interval(i)]
RECURSIVE shuffle_from(_, _, _)
shuffle_from(x, i, r) ==
    IF i < 1 THEN [value |-> x, state |-> r]
    ELSE With(rk_interval(i, r), LAMBDA d :
         With([x EXCEPT ![i + 1] = x[d.value + 1], ![d.value + 1] = x[i + 1]],
              LAMBDA swapped : shuffle_from(swapped, i - 1, d.state)))

numpy_random_shuffle(x, r) ==
    With(x, LAMBDA list : shuffle_from(list, Len(list) - 1, r))

\* what numpy.random.choice(a, size) does with replace=True and p=None, size draws
\* of an index; the program never asks for it, the mutants below do
RECURSIVE choice_with_replacement_from(_, _, _, _)
choice_with_replacement_from(a, size, drawn, r) ==
    IF Len(drawn) >= size THEN [raised |-> "none", value |-> drawn, state |-> r]
    ELSE With(rk_interval(Len(a) - 1, r), LAMBDA d :
         With(Append(drawn, a[d.value + 1]), LAMBDA more :
              choice_with_replacement_from(a, size, more, d.state)))

choice_with_replacement(a, size, r) ==
    With(a, LAMBDA population :
        IF Len(population) = 0 THEN [raised |-> "ValueError"]
        ELSE choice_with_replacement_from(population, size, << >>, r))

\* mutant: no check of the size against the population; the slice of the
\* permutation is then as long as the population at most
choice_without_size_check(a, size, r) ==
    With(a, LAMBDA population :
    With(numpy_random_shuffle(range(0, Len(population)), r), LAMBDA perm :
        [raised |-> "none",
         value |-> [k \in 1..(IF size > Len(population) THEN Len(population) ELSE size)
                       |-> population[perm.value[k] + 1]],
         state |-> perm.state]))

\* numpy.random.choice(a, size, replace=False) with p=None:
\* a[permutation(len(a))[:size]], and a ValueError when size > len(a)
choice_without_replacement(a, size, r) ==
    With(a, LAMBDA population :
        IF Len(population) = 0 \/ size > Len(population)
        THEN [raised |-> "ValueError"]
        ELSE With(numpy_random_shuffle(range(0, Len(population)), r), LAMBDA perm :
                 [raised |-> "none",
                  value |-> [k \in 1..size |-> population[perm.value[k] + 1]],
                  state |-> perm.state]))

\* cumsum(p)
RECURSIVE SumTo(_, _)
SumTo(p, k) == IF k = 0 THEN 0 ELSE SumTo(p, k - 1) + p[k]

cumsum(p) == [k \in 1..Len(p) |-> SumTo(p, k)]

\* cdf.searchsorted(u, side='right'): how many entries are <= u
searchsorted_right(cdf, u) == Cardinality({k \in DOMAIN cdf : cdf[k] <= u})

\* numpy.random.choice(a, size=None, p=p): one uniform draw through the cdf of p
\* (p in hundredths).  With size=None the replace flag makes no difference.
weighted_choice(a, p, r) ==
    With(random_sample(r), LAMBDA u :
        [value |-> a[searchsorted_right(cumsum(p), u.value) + 1], state |-> u.state])

(***************************************************************************)
(* list.sort(key=...): a stable sort, here by insertion.                   *)
(***************************************************************************)
\* xs is sorted by binTag; x goes after every entry whose tag is not greater
insert_by_tag(xs, x) ==
    With(Cardinality({i \in DOMAIN xs : ~StrLess(x.binTag, xs[i].binTag)}), LAMBDA k :
        SubSeq(xs, 1, k) \o << x >> \o SubSeq(xs, k + 1, Len(xs)))

RECURSIVE sort_by_tag_from(_, _, _)
sort_by_tag_from(done, todo, k) ==
    IF k > Len(todo) THEN done
    ELSE With(insert_by_tag(done, todo[k]), LAMBDA longer :
             sort_by_tag_from(longer, todo, k + 1))

\* mutant: the list is returned in the order it was drawn
sort_skipped(source_bins) == source_bins

\* source_bins.sort(key=lambda sb: sb['binTag'])
sort_by_binTag(source_bins) ==
    With(source_bins, LAMBDA list : sort_by_tag_from(<< >>, list, 1))

(***************************************************************************)
(* get_source_bins_for_order.  A call returns [raised |-> "none", value,   *)
(* state], or [raised, message] when it raises.                            *)
(***************************************************************************)
\* bins_in_rack = [bin for bin in BINS if bin.rack == rack]
bins_in_rack(rack) == SelectSeq(BINS, LAMBDA bin : bin.rack = rack)

\* the order in which .iteritems() yields the keys of the policy
iteritems(racks_and_num_source_bins, order) ==
    SelectSeq(order, LAMBDA rack : rack \in DOMAIN racks_and_num_source_bins)

\* mutant: the index drawn is taken for the number of items
draw_num_items_as_index(r) ==
    With(random_sample(r), LAMBDA u :
        [value |-> searchsorted_right(cumsum(<< 87, 8, 5 >>), u.value),
         state |-> u.state])

\* the number of items in one bin: choice(a=[1, 2, 3], p=[0.87, 0.08, 0.05])
draw_num_items(r) == weighted_choice(<< 1, 2, 3 >>, << 87, 8, 5 >>, r)

\* for bin in randomly_selected_bins: source_bins.append({...})
RECURSIVE append_entries_from(_, _, _, _)
append_entries_from(source_bins, selected, k, r) ==
    IF k > Len(selected) THEN [value |-> source_bins, state |-> r]
    ELSE With(draw_num_items(r), LAMBDA n :
         With(Append(source_bins,
                     [binTag |-> tag(selected[k]), numItems |-> n.value]),
              LAMBDA longer : append_entries_from(longer, selected, k + 1, n.state)))

append_entries(source_bins, selected, r) ==
    append_entries_from(source_bins, selected, 1, r)

\* mutant: the bins are drawn with replacement
select_bins_with_replacement(rack, num_source_bins, r) ==
    choice_with_replacement(bins_in_rack(rack), num_source_bins, r)

\* randomly_selected_bins = numpy.random.choice(a=bins_in_rack, size=..., replace=False)
select_bins(rack, num_source_bins, r) ==
    choice_without_replacement(bins_in_rack(rack), num_source_bins, r)

\* the loop over the racks of the policy
RECURSIVE sample_racks(_, _, _, _)
sample_racks(racks_and_num_source_bins, keys, source_bins, r) ==
    IF keys = << >> THEN [raised |-> "none", value |-> source_bins, state |-> r]
    ELSE With(select_bins(Head(keys), racks_and_num_source_bins[Head(keys)], r),
              LAMBDA selected :
         IF selected.raised # "none"
         THEN [raised |-> selected.raised, message |-> "sample larger than population"]
         ELSE With(append_entries(source_bins, selected.value, selected.state),
                   LAMBDA appended :
              With(Tail(keys), LAMBDA rest :
                   sample_racks(racks_and_num_source_bins, rest,
                                appended.value, appended.state))))

\* assert len(set([sb['binTag'] for sb in source_bins])) == len(source_bins)
no_duplicate_tag(source_bins) ==
    Cardinality({source_bins[i].binTag : i \in DOMAIN source_bins}) = Len(source_bins)

\* [bin for bin in source_bins if bin['binTag'][0] == rack]
entries_of_rack(source_bins, rack) ==
    SelectSeq(source_bins, LAMBDA sb : sb.binTag[1] = rack)

\* mutant: the capacity of a rack is not checked
capacity_unchecked(source_bins, racks_and_num_source_bins) == TRUE

\* for rack in racks_and_num_source_bins: assert len(bins_in_rack) <= MAX_ORDERS_PER_RACK
within_rack_capacity(source_bins, racks_and_num_source_bins) ==
    \A rack \in DOMAIN racks_and_num_source_bins :
        Len(entries_of_rack(source_bins, rack)) <= MAX_ORDERS_PER_RACK

get_source_bins_for_order(racks_and_num_source_bins, order, r) ==
    With(sample_racks(racks_and_num_source_bins,
                      iteritems(racks_and_num_source_bins, order), << >>, r),
         LAMBDA drawn :
    IF drawn.raised # "none" THEN drawn
    ELSE With(sort_by_binTag(drawn.value), LAMBDA source_bins :
         IF ~no_duplicate_tag(source_bins)
         THEN [raised |-> "AssertionError", message |-> "duplicated source bin tag"]
         ELSE IF ~within_rack_capacity(source_bins, racks_and_num_source_bins)
         THEN [raised |-> "AssertionError", message |-> "rack capacity"]
         ELSE [raised |-> "none", value |-> source_bins, state |-> drawn.state]))

(***************************************************************************)
(* The call stack.  A call replaces the caller's position by the position  *)
(* it resumes at and pushes the callee's first position; a return pops;    *)
(* an exception nobody catches ends the program.                           *)
(***************************************************************************)
Call(callee, resume) == << callee, resume >> \o Tail(pc)
Goto(position) == << position >> \o Tail(pc)
Returned == Tail(pc)
Uncaught == << "failed" >>
At(position) == Head(pc) = position

(***************************************************************************)
(* get_source_bins_for_order as one step of the program.                   *)
(***************************************************************************)
SamplerCall ==
    /\ At("get_source_bins_for_order")
    /\ \E r \in {get_source_bins_for_order(policy, hashOrder, rng)} :
           /\ result' = r
           /\ pc' = IF r.raised = "none" THEN Returned ELSE Uncaught
           /\ rng' = IF r.raised = "none" THEN r.state ELSE rng
    /\ UNCHANGED << seed, hashOrder, policy, num_training_tasks, num_testing_tasks,
                    task_id, training_tasks, testing_tasks, orders, method_index,
                    output, run, previous_output >>

(***************************************************************************)
(* get_orders_for_task.                                                    *)
(***************************************************************************)
\* mutant: the receiving bins are bins of rack A
receiving_bin_tags_in_rack_A ==
    << << "A", "1", "1" >>, << "A", "1", "2" >>, << "A", "1", "3" >> >>

receiving_bin_tags ==
    << << "C", "1", "1" >>, << "C", "1", "2" >>, << "C", "1", "3" >> >>

\* mutant: the counts are drawn from 5, 6, 7
draw_num_source_bins_shifted(r) == weighted_choice(<< 5, 6, 7 >>, << 90, 5, 5 >>, r)

\* numpy.random.choice(a=[4, 5, 6], p=[0.90, 0.05, 0.05])
draw_num_source_bins(r) == weighted_choice(<< 4, 5, 6 >>, << 90, 5, 5 >>, r)

\* the dict literal of one order: the count for 'A' is drawn first, then 'B'
draw_policy(r) ==
    With(draw_num_source_bins(r), LAMBDA a :
    With(draw_num_source_bins(a.state), LAMBDA b :
        [value |-> [rack \in {"A", "B"} |-> IF rack = "A" THEN a.value ELSE b.value],
         state |-> b.state]))

\* the next receiving bin tag of the loop: the policy is drawn and the sampler called
OrderPolicy ==
    /\ At("orders_loop")
    /\ Len(orders) < Len(receiving_bin_tags)
    /\ \E p \in {draw_policy(rng)} : policy' = p.value /\ rng' = p.state
    /\ pc' = Call("get_source_bins_for_order", "orders_append")
    /\ UNCHANGED << seed, hashOrder, result, num_training_tasks, num_testing_tasks,
                    task_id, training_tasks, testing_tasks, orders, method_index,
                    output, run, previous_output >>

\* orders.append({'orderId': i + 1, 'sourceBins': ..., 'receivingBinTag': ...})
new_order(i, source_bins) ==
    [orderId |-> i + 1, sourceBins |-> source_bins,
     receivingBinTag |-> receiving_bin_tags[i + 1]]

OrderAppend ==
    /\ At("orders_append")
    /\ orders' = Append(orders, new_order(Len(orders), result.value))
    /\ pc' = Goto("orders_loop")
    /\ UNCHANGED << seed, rng, hashOrder, policy, result, num_training_tasks,
                    num_testing_tasks, task_id, training_tasks, testing_tasks,
                    method_index, output, run, previous_output >>

\* return orders
OrdersReturn ==
    /\ At("orders_loop")
    /\ Len(orders) >= Len(receiving_bin_tags)
    /\ pc' = Returned
    /\ UNCHANGED << seed, rng, hashOrder, policy, result, num_training_tasks,
                    num_testing_tasks, task_id, training_tasks, testing_tasks,
                    orders, method_index, output, run, previous_output >>

(***************************************************************************)
(* get_tasks_for_method.                                                   *)
(***************************************************************************)
\* mutant: the training loop stops one task early
training_loop_stops_early(id, n_training) == id < n_training

\* while task_id <= num_training_tasks
training_loop_continues(id, n_training) == id <= n_training

\* while task_id <= num_training_tasks + num_testing_tasks
testing_loop_continues(id, n_training, n_testing) == id <= n_training + n_testing

Task(id, task_orders) == [taskId |-> id, orders |-> task_orders]

TrainingCall ==
    /\ At("training_loop")
    /\ training_loop_continues(task_id, num_training_tasks)
    /\ orders' = << >>
    /\ pc' = Call("orders_loop", "training_append")
    /\ UNCHANGED << seed, rng, hashOrder, policy, result, num_training_tasks,
                    num_testing_tasks, task_id, training_tasks, testing_tasks,
                    method_index, output, run, previous_output >>

TrainingAppend ==
    /\ At("training_append")
    /\ training_tasks' = Append(training_tasks, Task(task_id, orders))
    /\ task_id' = task_id + 1
    /\ pc' = Goto("training_loop")
    /\ UNCHANGED << seed, rng, hashOrder, policy, result, num_training_tasks,
                    num_testing_tasks, testing_tasks, orders, method_index, output,
                    run, previous_output >>

TrainingDone ==
    /\ At("training_loop")
    /\ ~training_loop_continues(task_id, num_training_tasks)
    /\ testing_tasks' = << >>
    /\ pc' = Goto("testing_loop")
    /\ UNCHANGED << seed, rng, hashOrder, policy, result, num_training_tasks,
                    num_testing_tasks, task_id, training_tasks, orders,
                    method_index, output, run, previous_output >>

TestingCall ==
    /\ At("testing_loop")
    /\ testing_loop_continues(task_id, num_training_tasks, num_testing_tasks)
    /\ orders' = << >>
    /\ pc' = Call("orders_loop", "testing_append")
    /\ UNCHANGED << seed, rng, hashOrder, policy, result, num_training_tasks,
                    num_testing_tasks, task_id, training_tasks, testing_tasks,
                    method_index, output, run, previous_output >>

TestingAppend ==
    /\ At("testing_append")
    /\ testing_tasks' = Append(testing_tasks, Task(task_id, orders))
    /\ task_id' = task_id + 1
    /\ pc' = Goto("testing_loop")
    /\ UNCHANGED << seed, rng, hashOrder, policy, result, num_training_tasks,
                    num_testing_tasks, training_tasks, orders, method_index, output,
                    run, previous_output >>

\* the two assertions on the lengths, then the return
TasksReturn ==
    /\ At("testing_loop")
    /\ ~testing_loop_continues(task_id, num_training_tasks, num_testing_tasks)
    /\ IF /\ Len(training_tasks) = num_training_tasks
          /\ Len(testing_tasks) = num_testing_tasks
       THEN pc' = Returned /\ UNCHANGED result
       ELSE /\ pc' = Uncaught
            /\ result' = [raised |-> "AssertionError", message |-> "task count"]
    /\ UNCHANGED << seed, rng, hashOrder, policy, num_training_tasks,
                    num_testing_tasks, task_id, training_tasks, testing_tasks,
                    orders, method_index, output, run, previous_output >>

(***************************************************************************)
(* __main__.                                                               *)
(***************************************************************************)
VERSION == << "1", ".", "2" >>

\* the file a list goes to: output/<study_method>/tasks-<study_method>-<kind>.json
output_file_name(is_training_task_list, study_method) ==
    << study_method, IF is_training_task_list THEN "training" ELSE "testing" >>

\* write_tasks_to_output_file: the file is created or overwritten (mode 'w+')
write_tasks_to_output_file(files, tasks, is_training_task_list, study_method) ==
    LET name == output_file_name(is_training_task_list, study_method)
    IN  [f \in DOMAIN files \cup {name} |->
            IF f = name THEN [version |-> VERSION, tasks |-> tasks] ELSE files[f]]

\* mutant: the list is resampled with replacement instead of shuffled
resample_tasks(tasks, r) == choice_with_replacement(tasks, Len(tasks), r)

\* numpy.random.shuffle(training_tasks) / numpy.random.shuffle(testing_tasks)
shuffle_tasks(tasks, r) == numpy_random_shuffle(tasks, r)

\* where the loop over STUDY_METHODS goes with its index at i
method_loop(i) == IF i <= Len(STUDY_METHODS) THEN "shuffle_training" ELSE "done"

\* numpy.random.seed(...), then the call of get_tasks_for_method
Seed ==
    /\ At("main")
    /\ rng' = numpy_random_seed(seed, rng)
    /\ task_id' = 1
    /\ training_tasks' = << >>
    /\ pc' = Call("training_loop", "write_master_training")
    /\ UNCHANGED << seed, hashOrder, policy, result, num_training_tasks,
                    num_testing_tasks, testing_tasks, orders, method_index, output,
                    run, previous_output >>

WriteMasterTraining ==
    /\ At("write_master_training")
    /\ output' = write_tasks_to_output_file(output, training_tasks, TRUE, "MASTER")
    /\ pc' = Goto("write_master_testing")
    /\ UNCHANGED << seed, rng, hashOrder, policy, result, num_training_tasks,
                    num_testing_tasks, task_id, training_tasks, testing_tasks,
                    orders, method_index, run, previous_output >>

WriteMasterTesting ==
    /\ At("write_master_testing")
    /\ output' = write_tasks_to_output_file(output, testing_tasks, FALSE, "MASTER")
    /\ method_index' = 1
    /\ pc' = Goto(method_loop(1))
    /\ UNCHANGED << seed, rng, hashOrder, policy, result, num_training_tasks,
                    num_testing_tasks, task_id, training_tasks, testing_tasks,
                    orders, run, previous_output >>

ShuffleTraining ==
    /\ At("shuffle_training")
    /\ \E shuffled \in {shuffle_tasks(training_tasks, rng)} :
           training_tasks' = shuffled.value /\ rng' = shuffled.state
    /\ pc' = Goto("shuffle_testing")
    /\ UNCHANGED << seed, hashOrder, policy, result, num_training_tasks,
                    num_testing_tasks, task_id, testing_tasks, orders, method_index,
                    output, run, previous_output >>

ShuffleTesting ==
    /\ At("shuffle_testing")
    /\ \E shuffled \in {shuffle_tasks(testing_tasks, rng)} :
           testing_tasks' = shuffled.value /\ rng' = shuffled.state
    /\ pc' = Goto("write_training")
    /\ UNCHANGED << seed, hashOrder, policy, result, num_training_tasks,
                    num_testing_tasks, task_id, training_tasks, orders, method_index,
                    output, run, previous_output >>

WriteTraining ==
    /\ At("write_training")
    /\ output' = write_tasks_to_output_file(output, training_tasks, TRUE,
                                            STUDY_METHODS[method_index])
    /\ pc' = Goto("write_testing")
    /\ UNCHANGED << seed, rng, hashOrder, policy, result, num_training_tasks,
                    num_testing_tasks, task_id, training_tasks, testing_tasks,
                    orders, method_index, run, previous_output >>

WriteTesting ==
    /\ At("write_testing")
    /\ output' = write_tasks_to_output_file(output, testing_tasks, FALSE,
                                            STUDY_METHODS[method_index])
    /\ method_index' = method_index + 1
    /\ pc' = Goto(method_loop(method_index + 1))
    /\ UNCHANGED << seed, rng, hashOrder, policy, result, num_training_tasks,
                    num_testing_tasks, task_id, training_tasks, testing_tasks,
                    orders, run, previous_output >>

\* The program is run again with the same seed and configuration: a new process,
\* whose generator starts from fresh entropy; the files of the run before are set
\* aside.
Rerun ==
    /\ At("done")
    /\ run < MaxRuns
    /\ run' = run + 1
    /\ previous_output' = output
    /\ output' = << >>
    /\ rng' \in 0..MaxEntropy
    /\ pc' = << "main" >>
    /\ policy' = << >>
    /\ result' = [raised |-> "pending"]
    /\ task_id' = 0
    /\ training_tasks' = << >>
    /\ testing_tasks' = << >>
    /\ orders' = << >>
    /\ method_index' = 0
    /\ UNCHANGED << seed, hashOrder, num_training_tasks, num_testing_tasks >>

(***************************************************************************)
(* Initial states and specifications.                                      *)
(***************************************************************************)
\* the two orders in which a dict with the keys 'A' and 'B' can be iterated
HashOrders == { << "A", "B" >>, << "B", "A" >> }

\* every mapping from some of the racks to a requested count
Policies == UNION { [d -> 0..MaxRequest] : d \in SUBSET Racks }

NotCalled == [raised |-> "pending"]

\* one call of get_source_bins_for_order, on a generator seeded with seed
InitSampler ==
    /\ pc = << "get_source_bins_for_order", "returned" >>
    /\ seed \in 0..MaxSeed
    /\ rng = numpy_random_seed(seed, 0)
    /\ hashOrder \in HashOrders
    /\ policy \in Policies
    /\ result = NotCalled
    /\ num_training_tasks = 0 /\ num_testing_tasks = 0 /\ task_id = 0
    /\ training_tasks = << >> /\ testing_tasks = << >> /\ orders = << >>
    /\ method_index = 0 /\ output = << >>
    /\ run = 1 /\ previous_output = << >>

\* one call of get_tasks_for_method, on a generator seeded with seed
InitTasks ==
    /\ pc = << "training_loop", "returned" >>
    /\ seed \in 0..MaxSeed
    /\ rng = numpy_random_seed(seed, 0)
    /\ hashOrder \in HashOrders
    /\ policy = << >>
    /\ result = NotCalled
    /\ num_training_tasks \in 0..MaxTasks
    /\ num_testing_tasks \in 0..MaxTasks
    /\ task_id = 1
    /\ training_tasks = << >> /\ testing_tasks = << >> /\ orders = << >>
    /\ method_index = 0 /\ output = << >>
    /\ run = 1 /\ previous_output = << >>

\* the start of the program: the generator is not seeded yet
InitMain ==
    /\ pc = << "main" >>
    /\ seed \in 0..MaxSeed
    /\ rng \in 0..MaxEntropy
    /\ hashOrder \in HashOrders
    /\ policy = << >>
    /\ result = NotCalled
    /\ num_training_tasks = NUM_TRAINING_TASKS
    /\ num_testing_tasks = NUM_TESTING_TASKS
    /\ task_id = 0
    /\ training_tasks = << >> /\ testing_tasks = << >> /\ orders = << >>
    /\ method_index = 0 /\ output = << >>
    /\ run = 1 /\ previous_output = << >>

NextOrders == OrderPolicy \/ SamplerCall \/ OrderAppend \/ OrdersReturn

NextTasks ==
    \/ TrainingCall \/ TrainingAppend \/ TrainingDone
    \/ TestingCall \/ TestingAppend \/ TasksReturn
    \/ NextOrders

NextMain ==
    \/ Seed
    \/ NextTasks
    \/ WriteMasterTraining \/ WriteMasterTesting
    \/ ShuffleTraining \/ ShuffleTesting
    \/ WriteTraining \/ WriteTesting

Spec == InitSampler /\ [][SamplerCall]_vars

SpecTasks == InitTasks /\ [][NextTasks]_vars

SpecMain == InitMain /\ [][NextMain]_vars

\* the program is sequential: a statement that can run does run
LiveMain == SpecMain /\ WF_vars(NextMain)

SpecRerun == InitMain /\ [][NextMain \/ Rerun]_vars

(***************************************************************************)
(* Properties.                                                             *)
(***************************************************************************)
\* the sampler call under study is over
SamplerDone == ~At("get_source_bins_for_order")
SamplerReturned == pc = << "returned" >> /\ result.raised = "none"
SamplerRaised == pc = Uncaught /\ result.raised \notin {"none", "pending"}
NoResult == "value" \notin DOMAIN result

\* how many entries of the list have a tag of the rack
EntriesIn(bins, rack) == Cardinality({i \in DOMAIN bins : bins[i].binTag[1] = rack})

\* the number of bins a rack holds
Inventory(rack) == Cardinality({k \in DOMAIN BINS : BINS[k].rack = rack})

\* the bin of the layout that carries the tag
BinOfTag(t) == BINS[CHOOSE k \in DOMAIN BINS : tag(BINS[k]) = t]

OverInventory(p) == \E rack \in DOMAIN p : p[rack] > Inventory(rack)
OverCapacity(p) == \E rack \in DOMAIN p : p[rack] > MAX_ORDERS_PER_RACK

RECURSIVE SumOver(_, _)
SumOver(p, racks) ==
    IF racks = {} THEN 0
    ELSE LET rack == CHOOSE x \in racks : TRUE
         IN  p[rack] + SumOver(p, racks \ {rack})

\* C1: whatever the policy, the iteration order and the draws, a list the sampler
\* returns has pairwise-distinct tags, over all racks together; and it is the
\* sampling that makes it so: the duplicate-tag assertion never fires.
C1_DistinctTags ==
    /\ SamplerReturned =>
          \A i, j \in DOMAIN result.value :
              i # j => result.value[i].binTag # result.value[j].binTag
    /\ SamplerRaised => result.message # "duplicated source bin tag"

\* C1 witness: a returned list with several entries of each rack
C1_Witness ==
    /\ SamplerReturned
    /\ EntriesIn(result.value, "A") >= 2
    /\ EntriesIn(result.value, "B") >= 2

\* C2: a returned list is in ascending order of tag in either iteration order of
\* the racks: rack A before rack B, and within a rack by row, then by column.
C2_SortedByTag ==
    SamplerReturned =>
        \A i, j \in DOMAIN result.value :
            i < j =>
                LET a == result.value[i].binTag
                    b == result.value[j].binTag
                    x == BinOfTag(a)
                    y == BinOfTag(b)
                IN  /\ ~StrLess(b, a)
                    /\ x.rack = "A" \/ y.rack = "B"
                    /\ x.rack = y.rack =>
                          \/ x.row_number < y.row_number
                          \/ /\ x.row_number = y.row_number
                             /\ x.column_number <= y.column_number

\* C2 witness: rack B was iterated first, and the list returned starts with
\* several bins of rack A
C2_Witness ==
    /\ SamplerReturned
    /\ hashOrder = << "B", "A" >>
    /\ EntriesIn(result.value, "A") >= 3
    /\ EntriesIn(result.value, "B") >= 3
    /\ result.value[1].binTag[1] = "A"

\* C3 as stated: a returned list has at most MAX_ORDERS_PER_RACK entries of each
\* rack of the policy, and a policy that asks a rack for more than that (and at
\* most for what the rack holds) ends in an assertion failure with no result.
C3_AsStated ==
    /\ SamplerReturned =>
          \A rack \in DOMAIN policy :
              EntriesIn(result.value, rack) <= MAX_ORDERS_PER_RACK
    /\ (/\ SamplerDone
        /\ \E rack \in DOMAIN policy :
              /\ policy[rack] > MAX_ORDERS_PER_RACK
              /\ policy[rack] <= Inventory(rack))
       => /\ SamplerRaised
          /\ result.raised = "AssertionError"
          /\ NoResult

\* C3, amended: the same, for a policy that asks no rack for more than it holds
\* (one that does ends in the sampling failure of C4, not in an assertion failure).
C3_RackCapacity ==
    /\ SamplerReturned =>
          \A rack \in DOMAIN policy :
              EntriesIn(result.value, rack) <= MAX_ORDERS_PER_RACK
    /\ (SamplerDone /\ OverCapacity(policy) /\ ~OverInventory(policy))
       => /\ SamplerRaised
          /\ result.raised = "AssertionError"
          /\ result.message = "rack capacity"
          /\ NoResult

\* C3 witness: a rack was asked for 7 bins and the call ended in the assertion
C3_Witness ==
    /\ SamplerRaised
    /\ result.raised = "AssertionError"
    /\ \E rack \in DOMAIN policy : policy[rack] = MAX_ORDERS_PER_RACK + 1
    /\ ~OverInventory(policy)

\* C4: a policy that asks a rack for more bins than it holds ends at the sampling
\* call, with no result, whatever the draws, the iteration order and the counts of
\* the other racks.
C4_InvalidPolicyFailsFast ==
    (SamplerDone /\ OverInventory(policy))
       => /\ SamplerRaised
          /\ result.raised = "ValueError"
          /\ NoResult

\* C4 witness: rack A, iterated first, was asked for bins it has; rack B for too many
C4_Witness ==
    /\ SamplerRaised
    /\ result.raised = "ValueError"
    /\ hashOrder = << "A", "B" >>
    /\ DOMAIN policy = {"A", "B"}
    /\ policy["A"] \in 1..MAX_ORDERS_PER_RACK
    /\ policy["B"] > Inventory("B")

C5_TaskCounts ==
    /\ pc # Uncaught
    /\ pc = << "returned" >> =>
          /\ Len(training_tasks) = num_training_tasks
          /\ Len(testing_tasks) = num_testing_tasks
          /\ \A i \in DOMAIN training_tasks : training_tasks[i].taskId = i
          /\ \A i \in DOMAIN testing_tasks :
                testing_tasks[i].taskId = num_training_tasks + i

\* C5 witness: a return with both lists non-empty and of different lengths
C5_Witness ==
    /\ pc = << "returned" >>
    /\ num_training_tasks = 2
    /\ num_testing_tasks = 3
    /\ Len(testing_tasks) = 3

\* the orders get_orders_for_task is to return
OrdersAsSpecified(os) ==
    /\ Len(os) = 3
    /\ \A i \in DOMAIN os :
          /\ os[i].orderId = i
          /\ os[i].receivingBinTag = << "C", "1", Digits[i + 1] >>
          /\ \A k \in DOMAIN os[i].sourceBins :
                os[i].sourceBins[k].binTag # os[i].receivingBinTag
          /\ \A k \in DOMAIN BINS : tag(BINS[k]) # os[i].receivingBinTag

\* C7: whenever get_orders_for_task has returned, its orders are three, numbered
\* 1, 2, 3, with the receiving bins C11, C12, C13 in that order, none of them the
\* tag of a source bin of the order or of any bin of the layout; so are the orders
\* of every task built.
C7_OrdersOfTask ==
    /\ (At("training_append") \/ At("testing_append")) => OrdersAsSpecified(orders)
    /\ \A i \in DOMAIN training_tasks : OrdersAsSpecified(training_tasks[i].orders)
    /\ \A i \in DOMAIN testing_tasks : OrdersAsSpecified(testing_tasks[i].orders)

\* C7 witness: a call has returned three orders that differ in their source bins
C7_Witness ==
    /\ At("testing_append")
    /\ Len(orders) = 3
    /\ orders[1].sourceBins # orders[2].sourceBins
    /\ Len(training_tasks) >= 1

\* s and t hold the same tasks, each as often
SameTasks(s, t) ==
    /\ Len(s) = Len(t)
    /\ \A i \in DOMAIN s :
          Cardinality({j \in DOMAIN s : s[j] = s[i]})
              = Cardinality({j \in DOMAIN t : t[j] = s[i]})

Written(study_method, kind) == output[<< study_method, kind >>].tasks

\* C9: the MASTER files hold the tasks in ascending order of id, 1..5 in training
\* and the rest in testing; every file written for a study method, and the lists
\* in memory from then on, hold the very tasks of the MASTER file of their kind
\* (ids and orders), none moved, lost or repeated.
C9_ShuffleKeepsPartition ==
    /\ << "MASTER", "training" >> \in DOMAIN output =>
          /\ Len(Written("MASTER", "training")) = NUM_TRAINING_TASKS
          /\ \A i \in DOMAIN Written("MASTER", "training") :
                Written("MASTER", "training")[i].taskId = i
          /\ SameTasks(training_tasks, Written("MASTER", "training"))
    /\ << "MASTER", "testing" >> \in DOMAIN output =>
          /\ Len(Written("MASTER", "testing")) = NUM_TESTING_TASKS
          /\ \A i \in DOMAIN Written("MASTER", "testing") :
                Written("MASTER", "testing")[i].taskId = NUM_TRAINING_TASKS + i
          /\ SameTasks(testing_tasks, Written("MASTER", "testing"))
    /\ \A f \in DOMAIN output :
          /\ Len(output[f].tasks)
                = (IF f[2] = "training" THEN NUM_TRAINING_TASKS ELSE NUM_TESTING_TASKS)
          /\ SameTasks(output[f].tasks, Written("MASTER", f[2]))

\* C9 witness: the run is over and the shuffles did reorder both lists
C9_Witness ==
    /\ At("done")
    /\ Written(STUDY_METHODS[1], "training") # Written("MASTER", "training")
    /\ Written(STUDY_METHODS[4], "testing") # Written(STUDY_METHODS[3], "testing")

AllFiles ==
    {<< m, k >> : m \in {"MASTER"} \cup {STUDY_METHODS[i] : i \in DOMAIN STUDY_METHODS},
                 k \in {"training", "testing"}}

Completed ==
    /\ At("done")
    /\ Len(training_tasks) + Len(testing_tasks) = 15
    /\ \A i \in DOMAIN training_tasks : Len(training_tasks[i].orders) = 3
    /\ \A i \in DOMAIN testing_tasks : Len(testing_tasks[i].orders) = 3
    /\ DOMAIN output = AllFiles

\* C10: the configured run never fails (no assertion, no invalid sample), and it
\* finishes, with 15 tasks of 3 orders each built and the MASTER files and the two
\* files of every study method written.
C10_RunCompletes == [](pc # Uncaught) /\ <>Completed

\* C10 witness: a completed run in which some order has ten source bins or more
C10_Witness ==
    /\ Completed
    /\ \E i \in DOMAIN testing_tasks : \E k \in 1..3 :
          Len(testing_tasks[i].orders[k].sourceBins) >= 4 + MAX_ORDERS_PER_RACK

\* C6: a run of the program with the seed and the configuration of the run before
\* writes the same files with the same content, whatever state its generator
\* started in.
C6_SameSeedSameOutput ==
    run > 1 =>
        /\ \A f \in DOMAIN output :
              f \in DOMAIN previous_output /\ output[f] = previous_output[f]
        /\ At("done") => output = previous_output

\* C6 witness: a second run is over, and both runs wrote every file
C6_Witness ==
    /\ run = 2
    /\ At("done")
    /\ DOMAIN output = AllFiles
    /\ DOMAIN previous_output = AllFiles

====
